---- MODULE Spec2Model ----
(***************************************************************************)
(* Travel booking backend (server.js): city-name normalisation, flight     *)
(* search with database fallback, registration / login, and bookings.      *)
(*                                                                         *)
(* Text is modelled as a sequence of one-character strings so that trim,   *)
(* case conversion and substring matching are computed, not assumed.       *)
(* A JavaScript value is a record [t |-> type tag, v |-> text].            *)
(***************************************************************************)
EXTENDS Integers, Sequences, FiniteSets, TLC

----------------------------------------------------------------------------
(* JavaScript values and text primitives *)

JSUndefined == [t |-> "undefined", v |-> <<>>]

JSNull == [t |-> "null", v |-> <<>>]

Str(s) == [t |-> "string", v |-> s]

\* JavaScript truthiness: undefined, null and "" are falsy; objects and
\* functions are truthy.
Truthy(x) ==
    CASE x.t = "undefined" -> FALSE
      [] x.t = "null" -> FALSE
      [] x.t = "string" -> x.v # <<>>
      [] OTHER -> TRUE

UpperLetters ==
    <<"A", "B", "C", "D", "E", "F", "G", "H", "I", "J", "K", "L", "M",
      "N", "O", "P", "Q", "R", "S", "T", "U", "V", "W", "X", "Y", "Z">>

LowerLetters ==
    <<"a", "b", "c", "d", "e", "f", "g", "h", "i", "j", "k", "l", "m",
      "n", "o", "p", "q", "r", "s", "t", "u", "v", "w", "x", "y", "z">>

WhiteSpace == {" ", "\t"}

IndexIn(c, letters) ==
    IF \E i \in 1..Len(letters) : letters[i] = c
    THEN CHOOSE i \in 1..Len(letters) : letters[i] = c
    ELSE 0

LowerChar(c) ==
    IF IndexIn(c, UpperLetters) # 0 THEN LowerLetters[IndexIn(c, UpperLetters)] ELSE c

UpperChar(c) ==
    IF IndexIn(c, LowerLetters) # 0 THEN UpperLetters[IndexIn(c, LowerLetters)] ELSE c

\* String.prototype.toLowerCase / toUpperCase
toLowerCase(s) == [i \in 1..Len(s) |-> LowerChar(s[i])]

toUpperCase(s) == [i \in 1..Len(s) |-> UpperChar(s[i])]

RECURSIVE TrimLeft(_)
TrimLeft(s) ==
    IF s # <<>> /\ Head(s) \in WhiteSpace THEN TrimLeft(Tail(s)) ELSE s

RECURSIVE TrimRight(_)
TrimRight(s) ==
    IF s # <<>> /\ s[Len(s)] \in WhiteSpace
    THEN TrimRight(SubSeq(s, 1, Len(s) - 1))
    ELSE s

\* String.prototype.trim
trim(s) == TrimRight(TrimLeft(s))

\* /^[a-z]+$/.test(s)
IsLowerAlpha(s) ==
    /\ Len(s) >= 1
    /\ \A i \in 1..Len(s) : IndexIn(s[i], LowerLetters) # 0

----------------------------------------------------------------------------
(* City to IATA code table and getIATACode *)

cityToIATA ==
    <<
       [city |-> <<"l", "a", "h", "o", "r", "e">>, code |-> <<"L", "H", "E">>],
       [city |-> <<"k", "a", "r", "a", "c", "h", "i">>, code |-> <<"K", "H", "I">>],
       [city |-> <<"i", "s", "l", "a", "m", "a", "b", "a", "d">>, code |-> <<"I", "S", "B">>],
       [city |-> <<"p", "e", "s", "h", "a", "w", "a", "r">>, code |-> <<"P", "E", "W">>],
       [city |-> <<"q", "u", "e", "t", "t", "a">>, code |-> <<"U", "E", "T">>],
       [city |-> <<"m", "u", "l", "t", "a", "n">>, code |-> <<"M", "U", "X">>],
       [city |-> <<"f", "a", "i", "s", "a", "l", "a", "b", "a", "d">>, code |-> <<"L", "Y", "P">>],
       [city |-> <<"s", "i", "a", "l", "k", "o", "t">>, code |-> <<"S", "K", "T">>],
       [city |-> <<"g", "w", "a", "d", "a", "r">>, code |-> <<"G", "W", "D">>],
       [city |-> <<"r", "a", "w", "a", "l", "p", "i", "n", "d", "i">>, code |-> <<"I", "S", "B">>],
       [city |-> <<"d", "u", "b", "a", "i">>, code |-> <<"D", "X", "B">>],
       [city |-> <<"l", "o", "n", "d", "o", "n">>, code |-> <<"L", "H", "R">>],
       [city |-> <<"n", "e", "w", " ", "y", "o", "r", "k">>, code |-> <<"J", "F", "K">>],
       [city |-> <<"t", "o", "r", "o", "n", "t", "o">>, code |-> <<"Y", "Y", "Z">>],
       [city |-> <<"j", "e", "d", "d", "a", "h">>, code |-> <<"J", "E", "D">>],
       [city |-> <<"r", "i", "y", "a", "d", "h">>, code |-> <<"R", "U", "H">>],
       [city |-> <<"d", "o", "h", "a">>, code |-> <<"D", "O", "H">>],
       [city |-> <<"a", "b", "u", " ", "d", "h", "a", "b", "i">>, code |-> <<"A", "U", "H">>],
       [city |-> <<"i", "s", "t", "a", "n", "b", "u", "l">>, code |-> <<"I", "S", "T">>],
       [city |-> <<"b", "a", "n", "g", "k", "o", "k">>, code |-> <<"B", "K", "K">>],
       [city |-> <<"k", "u", "a", "l", "a", " ", "l", "u", "m", "p", "u", "r">>, code |-> <<"K", "U", "L">>],
       [city |-> <<"s", "i", "n", "g", "a", "p", "o", "r", "e">>, code |-> <<"S", "I", "N">>],
       [city |-> <<"m", "a", "n", "c", "h", "e", "s", "t", "e", "r">>, code |-> <<"M", "A", "N">>],
       [city |-> <<"b", "i", "r", "m", "i", "n", "g", "h", "a", "m">>, code |-> <<"B", "H", "X">>],
       [city |-> <<"p", "a", "r", "i", "s">>, code |-> <<"C", "D", "G">>],
       [city |-> <<"t", "o", "k", "y", "o">>, code |-> <<"N", "R", "T">>],
       [city |-> <<"b", "e", "i", "j", "i", "n", "g">>, code |-> <<"P", "E", "K">>],
       [city |-> <<"s", "y", "d", "n", "e", "y">>, code |-> <<"S", "Y", "D">>],
       [city |-> <<"m", "e", "l", "b", "o", "u", "r", "n", "e">>, code |-> <<"M", "E", "L">>],
       [city |-> <<"c", "a", "i", "r", "o">>, code |-> <<"C", "A", "I">>],
       [city |-> <<"m", "u", "s", "c", "a", "t">>, code |-> <<"M", "C", "T">>],
       [city |-> <<"k", "u", "w", "a", "i", "t">>, code |-> <<"K", "W", "I">>],
       [city |-> <<"b", "a", "h", "r", "a", "i", "n">>, code |-> <<"B", "A", "H">>],
       [city |-> <<"s", "h", "a", "r", "j", "a", "h">>, code |-> <<"S", "H", "J">>],
       [city |-> <<"m", "e", "d", "i", "n", "a">>, code |-> <<"M", "E", "D">>],
       [city |-> <<"m", "a", "k", "k", "a", "h">>, code |-> <<"J", "E", "D">>],
       [city |-> <<"d", "e", "l", "h", "i">>, code |-> <<"D", "E", "L">>],
       [city |-> <<"m", "u", "m", "b", "a", "i">>, code |-> <<"B", "O", "M">>],
       [city |-> <<"d", "h", "a", "k", "a">>, code |-> <<"D", "A", "C">>]
    >>

\* Properties every object literal inherits from Object.prototype: a bracket
\* lookup on cityToIATA that misses the own keys finds these.
ObjectPrototype ==
    <<
       [name |-> <<"c", "o", "n", "s", "t", "r", "u", "c", "t", "o", "r">>, t |-> "function"],
       [name |-> <<"_", "_", "p", "r", "o", "t", "o", "_", "_">>, t |-> "object"],
       [name |-> <<"t", "o", "S", "t", "r", "i", "n", "g">>, t |-> "function"],
       [name |-> <<"v", "a", "l", "u", "e", "O", "f">>, t |-> "function"],
       [name |-> <<"h", "a", "s", "O", "w", "n", "P", "r", "o", "p", "e", "r", "t", "y">>, t |-> "function"],
       [name |-> <<"i", "s", "P", "r", "o", "t", "o", "t", "y", "p", "e", "O", "f">>, t |-> "function"],
       [name |-> <<"t", "o", "L", "o", "c", "a", "l", "e", "S", "t", "r", "i", "n", "g">>, t |-> "function"]
    >>

CityNames == {cityToIATA[i].city : i \in 1..Len(cityToIATA)}

InTable(s) == s \in CityNames

\* cityToIATA[key]: own property first, then the prototype chain.
TableLookup(key) ==
    IF \E i \in 1..Len(cityToIATA) : cityToIATA[i].city = key
    THEN Str(cityToIATA[CHOOSE i \in 1..Len(cityToIATA) : cityToIATA[i].city = key].code)
    ELSE IF \E j \in 1..Len(ObjectPrototype) : ObjectPrototype[j].name = key
         THEN [t |-> ObjectPrototype[CHOOSE j \in 1..Len(ObjectPrototype) :
                                        ObjectPrototype[j].name = key].t,
               v |-> key]
         ELSE JSUndefined

getIATACode(city) ==
    IF ~Truthy(city) THEN JSNull
    ELSE LET cityLower == trim(toLowerCase(city.v))
         IN  IF Len(cityLower) = 3 /\ IsLowerAlpha(cityLower)
             THEN Str(toUpperCase(cityLower))
             ELSE IF Truthy(TableLookup(cityLower))
                  THEN TableLookup(cityLower)
                  ELSE JSNull

----------------------------------------------------------------------------
(* Dates: new Date(text).getTime(), in seconds since the epoch *)

Digits == <<"0", "1", "2", "3", "4", "5", "6", "7", "8", "9">>

IsDigit(c) == IndexIn(c, Digits) # 0

DigitVal(c) == IndexIn(c, Digits) - 1

\* Value of the decimal digits s[a..b]
RECURSIVE Number(_, _, _)
Number(s, a, b) ==
    IF b < a THEN 0 ELSE Number(s, a, b - 1) * 10 + DigitVal(s[b])

AllDigits(s, a, b) == \A i \in a..b : IsDigit(s[i])

IsLeap(y) == (y % 4 = 0 /\ y % 100 # 0) \/ y % 400 = 0

DaysInMonth(y, m) ==
    IF m = 2 THEN (IF IsLeap(y) THEN 29 ELSE 28)
    ELSE IF m \in {4, 6, 9, 11} THEN 30 ELSE 31

\* Days between 1970-01-01 and y-m-d (proleptic Gregorian calendar)
DaysFromCivil(y, m, d) ==
    LET yy  == IF m <= 2 THEN y - 1 ELSE y
        era == yy \div 400
        yoe == yy - era * 400
        mp  == IF m > 2 THEN m - 3 ELSE m + 9
        doy == (153 * mp + 2) \div 5 + d - 1
        doe == yoe * 365 + yoe \div 4 - yoe \div 100 + doy
    IN  era * 146097 + doe - 719468

SecondsPerDay == 24 * 60 * 60

InvalidDate == [valid |-> FALSE, time |-> 0]

DateOnlyShape(s) ==
    /\ Len(s) >= 10
    /\ AllDigits(s, 1, 4) /\ s[5] = "-" /\ AllDigits(s, 6, 7)
    /\ s[8] = "-" /\ AllDigits(s, 9, 10)
    /\ Number(s, 6, 7) \in 1..12
    /\ Number(s, 9, 10) \in 1..DaysInMonth(Number(s, 1, 4), Number(s, 6, 7))

TimeShape(s) ==
    /\ Len(s) = 20
    /\ s[11] = "T" /\ AllDigits(s, 12, 13) /\ s[14] = ":"
    /\ AllDigits(s, 15, 16) /\ s[17] = ":" /\ AllDigits(s, 18, 19)
    /\ s[20] = "Z"
    /\ Number(s, 12, 13) \in 0..23
    /\ Number(s, 15, 16) \in 0..59
    /\ Number(s, 18, 19) \in 0..59

\* new Date(text): "YYYY-MM-DD" is midnight UTC, "YYYY-MM-DDTHH:MM:SSZ" is
\* that instant; any other text gives an Invalid Date.
ParseDate(s) ==
    IF ~DateOnlyShape(s) THEN InvalidDate
    ELSE LET day == DaysFromCivil(Number(s, 1, 4), Number(s, 6, 7), Number(s, 9, 10))
         IN  IF Len(s) = 10
             THEN [valid |-> TRUE, time |-> day * SecondsPerDay]
             ELSE IF TimeShape(s)
                  THEN [valid |-> TRUE,
                        time |-> day * SecondsPerDay + Number(s, 12, 13) * 3600
                                 + Number(s, 15, 16) * 60 + Number(s, 18, 19)]
                  ELSE InvalidDate

----------------------------------------------------------------------------
(* Stored flights and the fallback query *)

\* new RegExp(pattern, 'i').test(text) for a pattern of literal characters:
\* the pattern occurs somewhere in the text, letters compared without case.
RegExpTest(pattern, text) ==
    \E k \in 0..(Len(text) - Len(pattern)) :
        \A i \in 1..Len(pattern) : UpperChar(text[k + i]) = UpperChar(pattern[i])

NoFilter == [on |-> FALSE, re |-> <<>>]

NoRange == [on |-> FALSE, valid |-> TRUE, gte |-> 0, lt |-> 0]

\* The query object the fallback builds from req.query
FallbackQueryByCode(from, to, date) ==
    [from |-> IF Truthy(getIATACode(from)) THEN [on |-> TRUE, re |-> getIATACode(from).v] ELSE NoFilter,
     to   |-> IF Truthy(getIATACode(to)) THEN [on |-> TRUE, re |-> getIATACode(to).v] ELSE NoFilter,
     departureDate |->
        IF Truthy(date)
        THEN LET searchDate == ParseDate(date.v)
             IN  [on |-> TRUE, valid |-> searchDate.valid,
                  gte |-> searchDate.time,
                  lt |-> searchDate.time + SecondsPerDay]
        ELSE NoRange]

FallbackQuery(from, to, date) ==
    [from |-> IF Truthy(from) THEN [on |-> TRUE, re |-> from.v] ELSE NoFilter,
     to   |-> IF Truthy(to) THEN [on |-> TRUE, re |-> to.v] ELSE NoFilter,
     departureDate |->
        IF Truthy(date)
        THEN LET searchDate == ParseDate(date.v)
             IN  [on |-> TRUE, valid |-> searchDate.valid,
                  gte |-> searchDate.time,
                  lt |-> searchDate.time + SecondsPerDay]
        ELSE NoRange]

\* Does a stored flight satisfy the query (MongoDB filter semantics)
QueryMatches(query, f) ==
    /\ query.from.on => RegExpTest(query.from.re, f.from)
    /\ query.to.on => RegExpTest(query.to.re, f.to)
    /\ query.departureDate.on =>
          (f.departureDate >= query.departureDate.gte
           /\ f.departureDate < query.departureDate.lt)

\* A Date filter built from an Invalid Date cannot be cast: find() rejects.
QueryCastFails(query) == query.departureDate.on /\ ~query.departureDate.valid

\* The orders in which find(query).sort({price: 1}) can return the matching
\* documents of the collection: ascending price, equal prices in any order.
FindSorted(coll, query) ==
    LET hits == {f \in coll : QueryMatches(query, f)}
        n == Cardinality(hits)
    IN  {s \in [1..n -> hits] :
            /\ \A a, b \in 1..n : a # b => s[a] # s[b]
            /\ \A a, b \in 1..n : a < b => s[a].price <= s[b].price}

----------------------------------------------------------------------------
(* Flight offer translation *)

\* Does pat occur in s at position k
OccursAt(s, pat, k) ==
    /\ k + Len(pat) - 1 <= Len(s)
    /\ \A i \in 1..Len(pat) : s[k + i - 1] = pat[i]

\* String.prototype.replace(pat, rep) with a string pattern: the first
\* occurrence only.
ReplaceFirst(s, pat, rep) ==
    IF \E k \in 1..Len(s) : OccursAt(s, pat, k)
    THEN LET k == CHOOSE k \in 1..Len(s) :
                     /\ OccursAt(s, pat, k)
                     /\ \A j \in 1..(k - 1) : ~OccursAt(s, pat, j)
         IN  SubSeq(s, 1, k - 1) \o rep \o SubSeq(s, k + Len(pat), Len(s))
    ELSE s

\* PT2H30M -> 2h 30m
FormatDuration(d) ==
    ReplaceFirst(ReplaceFirst(ReplaceFirst(d, <<"P", "T">>, <<>>),
                              <<"H">>, <<"h", " ">>),
                 <<"M">>, <<"m">>)

StopsLabel(totalSegments) ==
    IF totalSegments = 1 THEN "Non-stop"
    ELSE ToString(totalSegments - 1) \o " Stop" \o (IF totalSegments > 2 THEN "s" ELSE "")

\* Math.round of a price given in hundredths
MathRound(hundredths) == (hundredths + 50) \div 100

\* from.charAt(0).toUpperCase() + from.slice(1).toLowerCase()
Capitalize(s) ==
    IF s = <<>> THEN s
    ELSE <<UpperChar(Head(s))>> \o toLowerCase(Tail(s))

\* offer.travelerPricings[0].fareDetailsBySegment[0] can be read
HasFareDetails(offer) == offer.fare

\* The arrow function of response.data.map: defined when the offer has its
\* fare details, a TypeError otherwise.
Translate(offer, from, to) ==
    [id |-> "amadeus_" \o offer.id,
     from |-> Capitalize(from.v),
     to |-> Capitalize(to.v),
     departureDate |-> offer.departureAt,
     duration |-> FormatDuration(offer.duration),
     price |-> MathRound(offer.total),
     stops |-> StopsLabel(offer.segments),
     class |-> offer.cabin,
     source |-> "amadeus"]

\* response.data.map(...): the translations in order, or a throw as soon as
\* one offer cannot be translated.
TranslateAll(batch, from, to) ==
    IF \A i \in 1..Len(batch) : HasFareDetails(batch[i])
    THEN [ok |-> TRUE, flights |-> [i \in 1..Len(batch) |-> Translate(batch[i], from, to)]]
    ELSE [ok |-> FALSE, flights |-> <<>>]

----------------------------------------------------------------------------
(* Flight search: responses *)

NoResponse == [status |-> 0, source |-> "", flights |-> <<>>, count |-> 0, error |-> ""]

ClientError(msg) ==
    [status |-> 400, source |-> "", flights |-> <<>>, count |-> 0, error |-> msg]

\* The 400 the handler returns before any external call, NoResponse when the
\* input passes validation and both codes resolve.
ValidationErrorNoDest(from, to) ==
    IF ~Truthy(from) \/ ~Truthy(to)
    THEN ClientError("From and To cities are required")
    ELSE IF ~Truthy(getIATACode(from))
         THEN ClientError("Unknown city (from)")
         ELSE NoResponse

ValidationError(from, to) ==
    IF ~Truthy(from) \/ ~Truthy(to)
    THEN ClientError("From and To cities are required")
    ELSE IF ~Truthy(getIATACode(from))
         THEN ClientError("Unknown city (from)")
         ELSE IF ~Truthy(getIATACode(to))
              THEN ClientError("Unknown city (to)")
              ELSE NoResponse

ProviderResponse(translated) ==
    [status |-> 200, source |-> "Amadeus API", flights |-> translated,
     count |-> Len(translated), error |-> ""]

FallbackResponseNonEmpty(found) ==
    IF found = <<>>
    THEN [status |-> 500, source |-> "", flights |-> <<>>, count |-> 0,
          error |-> "Failed to fetch flights"]
    ELSE [status |-> 200, source |-> "database", flights |-> found,
          count |-> Len(found), error |-> ""]

FallbackResponse(found) ==
    [status |-> 200, source |-> "database", flights |-> found,
     count |-> Len(found), error |-> ""]

HardError ==
    [status |-> 500, source |-> "", flights |-> <<>>, count |-> 0,
     error |-> "Failed to fetch flights"]

----------------------------------------------------------------------------
(* State *)

VARIABLES
    city,       \* normaliser: the argument of getIATACode
    code,       \* normaliser: the value it returned, Pending before the call
    flights,    \* the Flight collection (stored flights)
    sreq,       \* flight search requests in flight, by request id
    users,      \* the User collection
    areq,       \* register / login requests in flight, by request id
    bookings,   \* the Booking collection
    breq,       \* booking requests in flight, by request id
    now,        \* Date.now(), milliseconds
    offerDuration,  \* translator: the duration an offer carries
    rendered        \* translator: the duration text it produced, once done

vars == <<city, code, flights, sreq, users, areq, bookings, breq, now,
          offerDuration, rendered>>

durationVars == <<offerDuration, rendered>>

NoDuration == [hours |-> 0, minutes |-> 0, hasMinutes |-> FALSE]

NotRendered == [done |-> FALSE, text |-> <<>>]

normVars == <<city, code>>

searchVars == <<flights, sreq>>

authVars == <<users, areq>>

bookingVars == <<bookings, breq, now>>

Pending == [t |-> "pending", v |-> <<>>]

----------------------------------------------------------------------------
(* Normaliser on its own: every bounded text is an argument *)

MaxCityLen == 4

CityAlphabet == {"a", "B", " ", "1"}

TextsUpTo(n, alphabet) == UNION {[1..k -> alphabet] : k \in 0..n}

Padded(s) == <<" ">> \o s \o <<"\t">>

PrototypeNames == {ObjectPrototype[j].name : j \in 1..Len(ObjectPrototype)}

CityInputs ==
    {JSUndefined}
    \cup {Str(s) : s \in TextsUpTo(MaxCityLen, CityAlphabet)}
    \cup {Str(s) : s \in CityNames}
    \cup {Str(toUpperCase(s)) : s \in CityNames}
    \cup {Str(Padded(s)) : s \in CityNames}
    \cup {Str(s) : s \in PrototypeNames}
    \cup {Str(toLowerCase(s)) : s \in PrototypeNames}

InitNormalize ==
    /\ city \in CityInputs
    /\ code = Pending
    /\ flights = {}
    /\ sreq = <<>>
    /\ users = <<>>
    /\ areq = <<>>
    /\ bookings = <<>>
    /\ breq = <<>>
    /\ now = 0
    /\ offerDuration = NoDuration
    /\ rendered = NotRendered

Normalize ==
    /\ code = Pending
    /\ code' = getIATACode(city)
    /\ UNCHANGED <<city, searchVars, authVars, bookingVars, durationVars>>

NextNormalize == Normalize

SpecNormalize == InitNormalize /\ [][NextNormalize]_vars

\* C8: for every argument whose trimmed, lower-cased text does not have
\* length 3 and is not a key of the city table, getIATACode returns null.
C8_NoneOutsideTable ==
    (/\ code # Pending
     /\ city.t = "string"
     /\ Len(trim(toLowerCase(city.v))) # 3
     /\ ~InTable(trim(toLowerCase(city.v))))
        => code = JSNull

----------------------------------------------------------------------------
(* Flight search: GET /api/flights/search *)

TxtLahore == <<"l", "a", "h", "o", "r", "e">>

TxtLahorePadded == <<" ", "L", "a", "h", "o", "r", "e">>

TxtNowhere == <<"n", "o", "w", "h", "e", "r", "e">>

TxtDubai == <<"D", "u", "b", "a", "i">>

TxtDXB == <<"D", "X", "B">>

TxtAtlantis == <<"a", "t", "l", "a", "n", "t", "i", "s">>

TxtDay == <<"2", "0", "2", "5", "-", "0", "1", "-", "0", "1">>

TxtNoon == <<"2", "0", "2", "5", "-", "0", "1", "-", "0", "1", "T", "1", "2", ":", "0", "0", ":", "0", "0", "Z">>

TxtSoon == <<"s", "o", "o", "n">>

StoredLahore == <<"L", "a", "h", "o", "r", "e">>

StoredOldLahore == <<"O", "l", "d", " ", "L", "a", "h", "o", "r", "e">>

StoredKarachi == <<"K", "a", "r", "a", "c", "h", "i">>

StoredLHE == <<"L", "H", "E">>

StoredDubai == <<"D", "u", "b", "a", "i">>

StoredDubaiIntl == <<"d", "u", "b", "a", "i", " ", "i", "n", "t", "l">>

DurHM == <<"P", "T", "2", "H", "3", "0", "M">>

DurH == <<"P", "T", "5", "H">>

FromInputs ==
    {JSUndefined, Str(<<>>), Str(TxtLahore), Str(TxtLahorePadded), Str(TxtNowhere)}

ToInputs == {JSUndefined, Str(TxtDubai), Str(TxtAtlantis)}

DateInputs == {JSUndefined, Str(TxtDay), Str(TxtNoon), Str(TxtSoon)}

Jan1 == ParseDate(TxtDay).time

\* Documents the Flight collection may hold (stored documents carry no
\* source field: "" here).
StoredFlight(id, from, to, at, price) ==
    [id |-> id, from |-> from, to |-> to, departureDate |-> at,
     duration |-> <<"3", "h">>, price |-> price, stops |-> "Non-stop",
     class |-> "Economy", source |-> ""]

FlightPool ==
    {StoredFlight("F1", StoredLahore, StoredDubai, Jan1 + 8 * 3600, 300),
     StoredFlight("F2", StoredOldLahore, StoredDubaiIntl, Jan1 + 20 * 3600, 200),
     StoredFlight("F3", StoredLahore, StoredDubai, Jan1 + 30 * 3600, 300),
     StoredFlight("F4", StoredKarachi, StoredDubai, Jan1 + 8 * 3600, 100),
     StoredFlight("F5", StoredLHE, TxtDXB, Jan1 + 9 * 3600, 150)}

MaxFlights == 2

\* Collections of at most MaxFlights documents
FlightCollections == {c \in SUBSET FlightPool : Cardinality(c) <= MaxFlights}

\* Offers the provider may return; the last one lacks its fare details.
Offer(id, segments, duration, total, fare) ==
    [id |-> id, segments |-> segments, duration |-> duration, total |-> total,
     departureAt |-> Jan1 + 8 * 3600, fare |-> fare, cabin |-> "ECONOMY"]

OfferPool ==
    {Offer("1", 1, DurHM, 4500040, TRUE),
     Offer("2", 3, DurH, 9999950, TRUE),
     Offer("3", 2, DurHM, 7000000, FALSE)}

MaxBatch == 2

OfferBatches == UNION {[1..n -> OfferPool] : n \in 0..MaxBatch}

IdleSearch ==
    [pc |-> "idle", from |-> JSUndefined, to |-> JSUndefined, date |-> JSUndefined,
     providerCalls |-> 0, providerOutcome |-> "none", batch |-> <<>>,
     query |-> FallbackQuery(JSUndefined, JSUndefined, JSUndefined),
     dbQueries |-> 0, dbOutcome |-> "none", found |-> <<>>,
     responses |-> <<>>]

InitSearch ==
    /\ city = JSUndefined
    /\ code = Pending
    /\ flights \in FlightCollections
    /\ sreq = IdleSearch
    /\ users = <<>>
    /\ areq = <<>>
    /\ bookings = <<>>
    /\ breq = <<>>
    /\ now = 0
    /\ offerDuration = NoDuration
    /\ rendered = NotRendered

\* The synchronous head of the handler: validation, code resolution and, when
\* both pass, the one call of amadeus.shopping.flightOffersSearch.get
SearchStart(from, to, date) ==
    /\ sreq.pc = "idle"
    /\ LET err == ValidationError(from, to)
       IN  IF err # NoResponse
           THEN sreq' = [sreq EXCEPT !.pc = "done", !.from = from, !.to = to,
                                     !.date = date, !.responses = <<err>>]
           ELSE sreq' = [sreq EXCEPT !.pc = "awaitProvider", !.from = from,
                                     !.to = to, !.date = date,
                                     !.providerCalls = @ + 1]
    /\ UNCHANGED <<flights, normVars, authVars, bookingVars, durationVars>>

\* The catch block up to its await: build the query, issue Flight.find
EnterFallbackRetrying(r) ==
    [r EXCEPT !.pc = "awaitProvider", !.providerCalls = @ + 1]

EnterFallback(r) ==
    [r EXCEPT !.pc = "awaitDb", !.dbQueries = @ + 1,
              !.query = FallbackQuery(r.from, r.to, r.date)]

\* The provider call resolves with a batch of offers
ProviderSucceeds(batch) ==
    /\ sreq.pc = "awaitProvider"
    /\ LET r == [sreq EXCEPT !.providerOutcome = "ok", !.batch = batch]
           translated == TranslateAll(batch, sreq.from, sreq.to)
       IN  IF translated.ok
           THEN sreq' = [r EXCEPT !.pc = "done",
                                  !.responses = Append(@, ProviderResponse(translated.flights))]
           ELSE sreq' = EnterFallback(r)
    /\ UNCHANGED <<flights, normVars, authVars, bookingVars, durationVars>>

\* The provider call rejects (transport, auth or API error)
ProviderFails ==
    /\ sreq.pc = "awaitProvider"
    /\ sreq' = EnterFallback([sreq EXCEPT !.providerOutcome = "failed"])
    /\ UNCHANGED <<flights, normVars, authVars, bookingVars, durationVars>>

\* Flight.find(query).sort({price: 1}) resolves
DbSucceeds(found) ==
    /\ sreq.pc = "awaitDb"
    /\ ~QueryCastFails(sreq.query)
    /\ sreq' = [sreq EXCEPT !.pc = "done", !.dbOutcome = "ok", !.found = found,
                            !.responses = Append(@, FallbackResponse(found))]
    /\ UNCHANGED <<flights, normVars, authVars, bookingVars, durationVars>>

\* Flight.find rejects: the filter cannot be cast, or the store is unreachable
DbFails ==
    /\ sreq.pc = "awaitDb"
    /\ sreq' = [sreq EXCEPT !.pc = "done", !.dbOutcome = "failed",
                            !.responses = Append(@, HardError)]
    /\ UNCHANGED <<flights, normVars, authVars, bookingVars, durationVars>>

ProviderReturns == ProviderFails \/ \E batch \in OfferBatches : ProviderSucceeds(batch)

DbReturns == DbFails \/ \E found \in FindSorted(flights, sreq.query) : DbSucceeds(found)

NextSearch ==
    \/ \E from \in FromInputs, to \in ToInputs, date \in DateInputs :
          SearchStart(from, to, date)
    \/ ProviderFails
    \/ \E batch \in OfferBatches : ProviderSucceeds(batch)
    \/ \E found \in FindSorted(flights, sreq.query) : DbSucceeds(found)
    \/ DbFails

SpecSearch == InitSearch /\ [][NextSearch]_vars

\* The awaited promises settle and the event loop runs their continuations.
FairSearch == SpecSearch /\ WF_vars(ProviderReturns) /\ WF_vars(DbReturns)

----------------------------------------------------------------------------
(* Flight search: properties *)

InputRejected ==
    \/ ~Truthy(sreq.from)
    \/ ~Truthy(sreq.to)
    \/ ~Truthy(getIATACode(sreq.from))
    \/ ~Truthy(getIATACode(sreq.to))

\* C1: a search whose from or to is missing, or whose from or to resolves to
\* no code, is answered with 400, and at no point of that request is the
\* provider called or the Flight collection queried.
C1_FailFast ==
    (sreq.pc # "idle" /\ InputRejected) =>
        /\ sreq.pc = "done"
        /\ Len(sreq.responses) = 1
        /\ sreq.responses[1].status = 400
        /\ sreq.providerCalls = 0
        /\ sreq.dbQueries = 0

C1_Witness ==
    /\ sreq.pc = "done"
    /\ Truthy(sreq.from) /\ Truthy(getIATACode(sreq.from))
    /\ Truthy(sreq.to) /\ ~Truthy(getIATACode(sreq.to))
    /\ sreq.responses[1].status = 400

\* C2: when the provider call of a validated search fails, the response is
\* a 200 carrying the result of the stored-flight query (possibly empty) with
\* source "database"; a 500 is sent only when that query itself failed.
C2_FallbackRecovers ==
    (sreq.pc = "done" /\ sreq.providerOutcome = "failed") =>
        /\ Len(sreq.responses) = 1
        /\ sreq.dbOutcome = "ok" =>
              /\ sreq.responses[1].status = 200
              /\ sreq.responses[1].source = "database"
              /\ sreq.responses[1].flights = sreq.found
              /\ sreq.responses[1].count = Len(sreq.found)
        /\ sreq.responses[1].status # 200 =>
              /\ sreq.responses[1].status = 500
              /\ sreq.dbOutcome = "failed"

C2_Witness ==
    /\ sreq.pc = "done"
    /\ sreq.providerOutcome = "failed"
    /\ sreq.dbOutcome = "ok"
    /\ flights # {}
    /\ sreq.found = <<>>
    /\ sreq.responses[1].status = 200
    /\ sreq.responses[1].count = 0

\* C3: every search that has started eventually reaches its terminal state
\* with exactly one response sent, and the provider is called at most once
\* for it (a failed provider call is not retried).
C3_OneResponseNoRetry ==
    /\ [](/\ sreq.providerCalls <= 1
          /\ Len(sreq.responses) <= 1
          /\ (sreq.pc = "done" <=> Len(sreq.responses) = 1))
    /\ (sreq.pc # "idle") ~> (sreq.pc = "done" /\ Len(sreq.responses) = 1)

C3_Witness ==
    /\ sreq.pc = "done"
    /\ sreq.providerOutcome = "failed"
    /\ sreq.providerCalls = 1
    /\ sreq.dbQueries = 1
    /\ Len(sreq.responses) = 1

WellFormedOffers(batch) == SelectSeq(batch, HasFareDetails)

\* C9: when the provider call succeeds with a batch in which exactly one
\* offer cannot be translated, the response is provider-sourced and carries
\* the translation of every other offer of the batch.
C9_MalformedOfferSkipped ==
    (/\ sreq.pc = "done"
     /\ sreq.providerOutcome = "ok"
     /\ Len(sreq.batch) - Len(WellFormedOffers(sreq.batch)) = 1) =>
        /\ sreq.responses[1].status = 200
        /\ sreq.responses[1].source = "Amadeus API"
        /\ sreq.responses[1].flights =
              [i \in 1..Len(WellFormedOffers(sreq.batch)) |->
                  Translate(WellFormedOffers(sreq.batch)[i], sreq.from, sreq.to)]

\* part occurs in text, letters compared without case
ContainsIgnoringCase(text, part) ==
    \E a \in 1..(Len(text) + 1) : \E b \in 0..Len(text) :
        SubSeq(toLowerCase(text), a, b) = toLowerCase(part)

\* The stored flights a fallback answer must list
ExpectedFallback ==
    {f \in flights :
        /\ ContainsIgnoringCase(f.from, sreq.from.v)
        /\ ContainsIgnoringCase(f.to, sreq.to.v)
        /\ Truthy(sreq.date) =>
              /\ f.departureDate >= ParseDate(sreq.date.v).time
              /\ f.departureDate < ParseDate(sreq.date.v).time + 86400}

\* C10: a fallback answer lists exactly the stored flights whose from
\* contains the request's from text and whose to contains the request's to
\* text, without regard to case, within the 24 hours that start at the
\* supplied date when there is one, in ascending order of price; and no step
\* of the search changes the Flight collection.
C10_FallbackExact ==
    /\ []((sreq.pc = "done" /\ sreq.responses[1].source = "database") =>
            LET listed == sreq.responses[1].flights
            IN  /\ {listed[i] : i \in 1..Len(listed)} = ExpectedFallback
                /\ Len(listed) = Cardinality(ExpectedFallback)
                /\ \A i, j \in 1..Len(listed) :
                      i < j => listed[i].price <= listed[j].price)
    /\ [][flights' = flights]_vars

C10_Witness ==
    /\ sreq.pc = "done"
    /\ sreq.responses[1].source = "database"
    /\ sreq.from = Str(TxtLahore)
    /\ sreq.date = Str(TxtNoon)
    /\ {f.id : f \in flights} = {"F2", "F3"}
    /\ Len(sreq.responses[1].flights) = 2
    /\ sreq.responses[1].flights[1].id = "F2"

----------------------------------------------------------------------------
(* Accounts: POST /api/auth/register and POST /api/auth/login *)

\* bcrypt.hash(text, 10): a one-way digest, written here as the tagged text
BcryptHash(text) == <<"$", "2", "a", "$">> \o text

\* bcrypt.compare(password, hash): rejects when the candidate is no string
BcryptCompare(password, hash) ==
    IF password.t # "string"
    THEN [threw |-> TRUE, isValid |-> FALSE]
    ELSE [threw |-> FALSE, isValid |-> BcryptHash(password.v) = hash]

NoToken == [id |-> 0, email |-> ""]

\* jwt.sign({ id: user._id, email: user.email }, ...)
JwtSign(user) == [id |-> user.id, email |-> user.email]

NoUser == [id |-> 0, email |-> "", password |-> <<>>]

\* User.findOne({ email })
FindUser(coll, email) ==
    IF \E i \in 1..Len(coll) : coll[i].email = email
    THEN coll[CHOOSE i \in 1..Len(coll) : coll[i].email = email]
    ELSE NoUser

\* user.save() against the collection: email carries a unique index, so a
\* document whose email is already stored is refused (duplicate key).
InsertUserNoIndex(coll, doc) == [ok |-> TRUE, coll |-> Append(coll, doc)]

InsertUser(coll, doc) ==
    IF \E i \in 1..Len(coll) : coll[i].email = doc.email
    THEN [ok |-> FALSE, coll |-> coll]
    ELSE [ok |-> TRUE, coll |-> Append(coll, doc)]

AuthReply(status, error, token) == [status |-> status, error |-> error, token |-> token]

NoReply == AuthReply(0, "", NoToken)

MaxAuthReq == 2

AuthIds == 1..MaxAuthReq

Emails == {"a@x.pk", "b@x.pk"}

Pw1 == <<"p", "w", "1">>

Pw2 == <<"p", "w", "2">>

Passwords == {Str(Pw1), Str(Pw2), JSUndefined}

IdleAuth ==
    [kind |-> "none", pc |-> "idle", email |-> "", password |-> JSUndefined,
     found |-> FALSE, user |-> NoUser, hashed |-> <<>>, duplicate |-> FALSE,
     created |-> FALSE, response |-> NoReply]

SeedUser == [id |-> 1, email |-> "a@x.pk", password |-> BcryptHash(Pw1)]

InitAuth ==
    /\ city = JSUndefined
    /\ code = Pending
    /\ flights = {}
    /\ sreq = IdleSearch
    /\ users \in {<<>>, <<SeedUser>>}
    /\ areq = [r \in AuthIds |-> IdleAuth]
    /\ bookings = <<>>
    /\ breq = <<>>
    /\ now = 0
    /\ offerDuration = NoDuration
    /\ rendered = NotRendered

\* Requests take the ids in order of arrival
NextToArrive(reqs, r) ==
    /\ reqs[r].pc = "idle"
    /\ IF r = 1 THEN TRUE ELSE reqs[r - 1].pc # "idle"

\* A register request arrives and awaits User.findOne
RegisterStart(r, email, password) ==
    /\ NextToArrive(areq, r)
    /\ areq' = [areq EXCEPT ![r] = [@ EXCEPT !.kind = "register", !.pc = "findOne",
                                             !.email = email, !.password = password]]
    /\ UNCHANGED <<users, normVars, searchVars, bookingVars, durationVars>>

\* findOne resolves: 400 when the email is stored, else bcrypt.hash is called
\* (and rejects at once when the password is no string)
RegisterFindOne(r) ==
    /\ areq[r].kind = "register" /\ areq[r].pc = "findOne"
    /\ LET existingUser == FindUser(users, areq[r].email)
       IN  areq' = [areq EXCEPT ![r] =
              IF existingUser # NoUser
              THEN [@ EXCEPT !.pc = "done", !.found = TRUE,
                             !.response = AuthReply(400, "Email already registered", NoToken)]
              ELSE IF areq[r].password.t # "string"
                   THEN [@ EXCEPT !.pc = "done",
                                  !.response = AuthReply(500, "Illegal arguments", NoToken)]
                   ELSE [@ EXCEPT !.pc = "hash"]]
    /\ UNCHANGED <<users, normVars, searchVars, bookingVars, durationVars>>

\* bcrypt.hash resolves: the document is built and user.save() awaited
RegisterHashed(r) ==
    /\ areq[r].kind = "register" /\ areq[r].pc = "hash"
    /\ areq' = [areq EXCEPT ![r] = [@ EXCEPT !.pc = "save",
                                             !.hashed = BcryptHash(areq[r].password.v)]]
    /\ UNCHANGED <<users, normVars, searchVars, bookingVars, durationVars>>

\* save settles: 201 with a token, or 500 when the store refuses the document
RegisterSaved(r) ==
    /\ areq[r].kind = "register" /\ areq[r].pc = "save"
    /\ LET doc == [id |-> Len(users) + 1, email |-> areq[r].email,
                   password |-> areq[r].hashed]
           saved == InsertUser(users, doc)
       IN  /\ users' = saved.coll
           /\ areq' = [areq EXCEPT ![r] =
                 IF saved.ok
                 THEN [@ EXCEPT !.pc = "done", !.created = TRUE,
                                !.response = AuthReply(201, "", JwtSign(doc))]
                 ELSE [@ EXCEPT !.pc = "done", !.duplicate = TRUE,
                                !.response = AuthReply(500, "E11000 duplicate key", NoToken)]]
    /\ UNCHANGED <<normVars, searchVars, bookingVars, durationVars>>

\* A login request arrives and awaits User.findOne
LoginStart(r, email, password) ==
    /\ NextToArrive(areq, r)
    /\ areq' = [areq EXCEPT ![r] = [@ EXCEPT !.kind = "login", !.pc = "findOne",
                                             !.email = email, !.password = password]]
    /\ UNCHANGED <<users, normVars, searchVars, bookingVars, durationVars>>

\* findOne resolves: 401 when there is no such user, else bcrypt.compare is
\* called (and rejects at once when the password is no string)
LoginFindOne(r) ==
    /\ areq[r].kind = "login" /\ areq[r].pc = "findOne"
    /\ LET user == FindUser(users, areq[r].email)
       IN  areq' = [areq EXCEPT ![r] =
              IF user = NoUser
              THEN [@ EXCEPT !.pc = "done",
                             !.response = AuthReply(401, "Invalid credentials", NoToken)]
              ELSE IF BcryptCompare(areq[r].password, user.password).threw
                   THEN [@ EXCEPT !.pc = "done", !.found = TRUE, !.user = user,
                                  !.response = AuthReply(500, "Illegal arguments", NoToken)]
                   ELSE [@ EXCEPT !.pc = "compare", !.found = TRUE, !.user = user]]
    /\ UNCHANGED <<users, normVars, searchVars, bookingVars, durationVars>>

\* bcrypt.compare resolves: 401 on a mismatch, else 200 with a token
LoginCompared(r) ==
    /\ areq[r].kind = "login" /\ areq[r].pc = "compare"
    /\ areq' = [areq EXCEPT ![r] =
          IF ~BcryptCompare(areq[r].password, areq[r].user.password).isValid
          THEN [@ EXCEPT !.pc = "done",
                         !.response = AuthReply(401, "Invalid credentials", NoToken)]
          ELSE [@ EXCEPT !.pc = "done",
                         !.response = AuthReply(200, "", JwtSign(areq[r].user))]]
    /\ UNCHANGED <<users, normVars, searchVars, bookingVars, durationVars>>

NextAuth ==
    \/ \E r \in AuthIds, email \in Emails, password \in Passwords :
          RegisterStart(r, email, password)
    \/ \E r \in AuthIds : RegisterFindOne(r)
    \/ \E r \in AuthIds : RegisterHashed(r)
    \/ \E r \in AuthIds : RegisterSaved(r)
    \/ \E r \in AuthIds, email \in Emails, password \in Passwords :
          LoginStart(r, email, password)
    \/ \E r \in AuthIds : LoginFindOne(r)
    \/ \E r \in AuthIds : LoginCompared(r)

SpecAuth == InitAuth /\ [][NextAuth]_vars

Registered(r) == areq[r].kind = "register" /\ areq[r].pc = "done"

\* C4: no two stored users share an email; a register request whose email is
\* already stored (when it looks the email up, or when it saves) gets an
\* error response, adds no user and gets no token; every stored user beyond
\* the initial ones comes from one successful register request.
C4_EmailUnique ==
    /\ \A i, j \in 1..Len(users) : i # j => users[i].email # users[j].email
    /\ \A r \in AuthIds :
          (Registered(r) /\ (areq[r].found \/ areq[r].duplicate)) =>
              /\ areq[r].response.status >= 400
              /\ areq[r].response.token = NoToken
              /\ ~areq[r].created
    /\ \A r \in AuthIds :
          (Registered(r) /\ areq[r].response.status = 201) =>
              \E i \in 1..Len(users) :
                  /\ users[i].email = areq[r].email
                  /\ areq[r].response.token.id = users[i].id

\* Two register requests for the same new email were in flight together:
\* both passed the lookup, one was saved and the other refused.
C4_Witness ==
    \E r1, r2 \in AuthIds :
        /\ r1 # r2
        /\ Registered(r1) /\ Registered(r2)
        /\ areq[r1].email = areq[r2].email
        /\ ~areq[r1].found /\ ~areq[r2].found
        /\ areq[r1].created
        /\ areq[r2].duplicate

LoggedIn(r) == areq[r].kind = "login" /\ areq[r].pc = "done"

WrongCredential(r) ==
    /\ areq[r].found
    /\ ~(areq[r].password.t = "string"
         /\ areq[r].user.password = BcryptHash(areq[r].password.v))

\* C7: a login whose email matches no user and a login whose email exists
\* but whose credential is wrong get identical responses.
C7_LoginIndistinguishable ==
    \A r1, r2 \in AuthIds :
        (/\ LoggedIn(r1) /\ ~areq[r1].found
         /\ LoggedIn(r2) /\ WrongCredential(r2)) =>
            areq[r1].response = areq[r2].response

----------------------------------------------------------------------------
(* Bookings: authenticateToken and POST /api/bookings *)

\* The pieces of s between occurrences of sep (String.prototype.split)
RECURSIVE SplitFrom(_, _, _)
SplitFrom(s, sep, piece) ==
    IF s = <<>> THEN <<piece>>
    ELSE IF Head(s) = sep
         THEN <<piece>> \o SplitFrom(Tail(s), sep, <<>>)
         ELSE SplitFrom(Tail(s), sep, Append(piece, Head(s)))

Split(s, sep) == SplitFrom(s, sep, <<>>)

\* authHeader && authHeader.split(' ')[1]
BearerToken(authHeader) ==
    IF ~Truthy(authHeader) THEN authHeader
    ELSE IF Len(Split(authHeader.v, " ")) >= 2
         THEN Str(Split(authHeader.v, " ")[2])
         ELSE JSUndefined

TokGood == <<"g", "o", "o", "d">>

TokOld == <<"o", "l", "d">>

TokBad == <<"b", "a", "d">>

Bearer == <<"B", "e", "a", "r", "e", "r">>

FirstMillisecond == 35

SevenDays == 7 * 24 * 60 * 60 * 1000

\* Tokens signed with the server's secret: their payload and expiry
SignedTokens ==
    {[text |-> TokGood, id |-> 1, exp |-> FirstMillisecond + SevenDays],
     [text |-> TokOld, id |-> 2, exp |-> 0]}

\* jwt.verify(token, secret): the payload of a signed, unexpired token
JwtVerify(token, clock) ==
    IF \E s \in SignedTokens : s.text = token /\ clock < s.exp
    THEN [err |-> FALSE, id |-> (CHOOSE s \in SignedTokens : s.text = token).id]
    ELSE [err |-> TRUE, id |-> 0]

\* The middleware: 401 without a token, 403 when verification fails,
\* otherwise next() with req.user set (status 0: no response sent)
AuthenticateTokenLenient(authHeader, clock) ==
    IF ~Truthy(BearerToken(authHeader))
    THEN [status |-> 401, id |-> 0]
    ELSE [status |-> 0, id |-> JwtVerify(BearerToken(authHeader).v, clock).id]

AuthenticateToken(authHeader, clock) ==
    IF ~Truthy(BearerToken(authHeader))
    THEN [status |-> 401, id |-> 0]
    ELSE IF JwtVerify(BearerToken(authHeader).v, clock).err
         THEN [status |-> 403, id |-> 0]
         ELSE [status |-> 0, id |-> JwtVerify(BearerToken(authHeader).v, clock).id]

Base36Digits == Digits \o LowerLetters

\* Number.prototype.toString(36)
RECURSIVE ToString36(_)
ToString36(n) ==
    IF n < 36 THEN <<Base36Digits[n + 1]>>
    ELSE ToString36(n \div 36) \o <<Base36Digits[(n % 36) + 1]>>

\* 'BK' + Date.now().toString(36).toUpperCase()
BookingReference(clock) == <<"B", "K">> \o toUpperCase(ToString36(clock))

\* booking.save() against the collection: bookingReference carries a unique
\* index, so a document whose reference is already stored is refused.
InsertBookingNoIndex(coll, doc) == [ok |-> TRUE, coll |-> Append(coll, doc)]

InsertBooking(coll, doc) ==
    IF \E i \in 1..Len(coll) : coll[i].bookingReference = doc.bookingReference
    THEN [ok |-> FALSE, coll |-> coll]
    ELSE [ok |-> TRUE, coll |-> Append(coll, doc)]

MaxBookReq == 2

MaxTicks == 2

BookIds == 1..MaxBookReq

HeaderInputs ==
    {JSUndefined, Str(Bearer), Str(Bearer \o <<" ">>),
     Str(Bearer \o <<" ">> \o TokGood),
     Str(Bearer \o <<" ">> \o TokBad),
     Str(Bearer \o <<" ">> \o TokOld)}

IdleBooking ==
    [pc |-> "idle", authorization |-> JSUndefined, handlerRan |-> FALSE,
     bookingReference |-> <<>>, userId |-> 0, at |-> 0, status |-> 0]

InitBookings ==
    /\ city = JSUndefined
    /\ code = Pending
    /\ flights = {}
    /\ sreq = IdleSearch
    /\ users = <<>>
    /\ areq = <<>>
    /\ bookings = <<>>
    /\ breq = [r \in BookIds |-> IdleBooking]
    /\ now = FirstMillisecond
    /\ offerDuration = NoDuration
    /\ rendered = NotRendered

\* A millisecond passes
Tick ==
    /\ now < FirstMillisecond + MaxTicks
    /\ now' = now + 1
    /\ UNCHANGED <<bookings, breq, normVars, searchVars, authVars, durationVars>>

\* A booking request arrives: the middleware answers 401 / 403, or lets the
\* handler run up to its await of booking.save()
BookingArrive(r, authHeader) ==
    /\ NextToArrive(breq, r)
    /\ LET auth == AuthenticateToken(authHeader, now)
       IN  breq' = [breq EXCEPT ![r] =
              IF auth.status # 0
              THEN [@ EXCEPT !.pc = "done", !.authorization = authHeader,
                             !.status = auth.status]
              ELSE [@ EXCEPT !.pc = "save", !.authorization = authHeader,
                             !.handlerRan = TRUE, !.userId = auth.id, !.at = now,
                             !.bookingReference = BookingReference(now)]]
    /\ UNCHANGED <<bookings, now, normVars, searchVars, authVars, durationVars>>

\* save settles: 201, or 500 when the store refuses the document
BookingSaved(r) ==
    /\ breq[r].pc = "save"
    /\ LET doc == [bookingReference |-> breq[r].bookingReference,
                   userId |-> breq[r].userId,
                   paymentStatus |-> "completed", bookingStatus |-> "confirmed"]
           saved == InsertBooking(bookings, doc)
       IN  /\ bookings' = saved.coll
           /\ breq' = [breq EXCEPT ![r] =
                 [@ EXCEPT !.pc = "done",
                           !.status = IF saved.ok THEN 201 ELSE 500]]
    /\ UNCHANGED <<now, normVars, searchVars, authVars, durationVars>>

NextBookings ==
    \/ Tick
    \/ \E r \in BookIds, authHeader \in HeaderInputs : BookingArrive(r, authHeader)
    \/ \E r \in BookIds : BookingSaved(r)

SpecBookings == InitBookings /\ [][NextBookings]_vars

NoTokenHeaders == {JSUndefined, Str(Bearer), Str(Bearer \o <<" ">>)}

BadTokenHeaders == {Str(Bearer \o <<" ">> \o TokBad), Str(Bearer \o <<" ">> \o TokOld)}

Answered(r) == breq[r].pc = "done"

\* C5: a booking request without a bearer token is answered 401 and one with
\* an invalid or expired token 403; in both cases the handler body does not
\* run and no booking is stored for it (the stored bookings are exactly those
\* of the requests answered 201).
C5_Unauthenticated ==
    /\ \A r \in BookIds :
          (Answered(r) /\ breq[r].authorization \in NoTokenHeaders) =>
              breq[r].status = 401 /\ ~breq[r].handlerRan
    /\ \A r \in BookIds :
          (Answered(r) /\ breq[r].authorization \in BadTokenHeaders) =>
              breq[r].status = 403 /\ ~breq[r].handlerRan
    /\ Len(bookings) = Cardinality({r \in BookIds : Answered(r) /\ breq[r].status = 201})
    /\ \A r \in BookIds :
          (Answered(r) /\ breq[r].status = 201) =>
              breq[r].authorization \notin (NoTokenHeaders \cup BadTokenHeaders)

C5_Witness ==
    \E r1, r2 \in BookIds :
        /\ Answered(r1) /\ breq[r1].authorization = JSUndefined /\ breq[r1].status = 401
        /\ Answered(r2) /\ breq[r2].authorization = Str(Bearer \o <<" ">> \o TokOld)
        /\ breq[r2].status = 403
        /\ bookings = <<>>

\* C6: any two stored bookings have different booking references.
C6_ReferenceUnique ==
    \A i, j \in 1..Len(bookings) :
        i # j => bookings[i].bookingReference # bookings[j].bookingReference

\* Two authenticated requests took their reference from the same millisecond
\* and both were answered.
C6_Witness ==
    \E r1, r2 \in BookIds :
        /\ r1 # r2
        /\ Answered(r1) /\ Answered(r2)
        /\ breq[r1].handlerRan /\ breq[r2].handlerRan
        /\ breq[r1].at = breq[r2].at
        /\ breq[r1].bookingReference = breq[r2].bookingReference
        /\ breq[r1].status = 201
        /\ breq[r2].status = 500

----------------------------------------------------------------------------
(* Duration rendering on its own: every bounded duration is an argument *)

MaxHours == 12

\* The decimal digits of n
RECURSIVE ToDecimal(_)
ToDecimal(n) ==
    IF n < 10 THEN <<Digits[n + 1]>>
    ELSE ToDecimal(n \div 10) \o <<Digits[(n % 10) + 1]>>

\* offer.itineraries[0].duration as the provider writes it: PT<h>H<m>M, or
\* PT<h>H when there are no minutes
IsoDuration(d) ==
    <<"P", "T">> \o ToDecimal(d.hours) \o <<"H">>
        \o (IF d.hasMinutes THEN ToDecimal(d.minutes) \o <<"M">> ELSE <<>>)

DurationInputs ==
    {[hours |-> h, minutes |-> m, hasMinutes |-> TRUE] : h \in 1..MaxHours, m \in 1..59}
    \cup {[hours |-> h, minutes |-> 0, hasMinutes |-> FALSE] : h \in 1..MaxHours}

InitDuration ==
    /\ city = JSUndefined
    /\ code = Pending
    /\ flights = {}
    /\ sreq = IdleSearch
    /\ users = <<>>
    /\ areq = <<>>
    /\ bookings = <<>>
    /\ breq = <<>>
    /\ now = 0
    /\ offerDuration \in DurationInputs
    /\ rendered = NotRendered

\* The translator renders the duration of the offer
RenderDuration ==
    /\ ~rendered.done
    /\ rendered' = [done |-> TRUE, text |-> FormatDuration(IsoDuration(offerDuration))]
    /\ UNCHANGED <<offerDuration, normVars, searchVars, authVars, bookingVars>>

NextDuration == RenderDuration

SpecDuration == InitDuration /\ [][NextDuration]_vars

\* C11: PT<h>H<m>M is rendered as "<h>h <m>m", and PT<h>H as the hours
\* component alone: "<h>h", with no minutes component and nothing left after
\* it.
C11_DurationRendered ==
    rendered.done =>
        rendered.text =
            IF offerDuration.hasMinutes
            THEN ToDecimal(offerDuration.hours) \o <<"h", " ">>
                    \o ToDecimal(offerDuration.minutes) \o <<"m">>
            ELSE ToDecimal(offerDuration.hours) \o <<"h">>

\* The half of C11 that the code meets: with minutes present the rendering
\* is "<h>h <m>m".
C11_WithMinutes ==
    (rendered.done /\ offerDuration.hasMinutes) =>
        rendered.text = ToDecimal(offerDuration.hours) \o <<"h", " ">>
                           \o ToDecimal(offerDuration.minutes) \o <<"m">>

====
